---------------------------- MODULE Spec2Model ----------------------------
(***************************************************************************)
(* Model of mirage's Backend (src/backend/backend.py) and ModelProxy       *)
(* (src/backend/models/proxy.py).                                          *)
(*                                                                         *)
(* Backend runs on one asyncio event loop: a coroutine runs without        *)
(* interruption from one await to the next, so every action below is one   *)
(* such run of one task: from the call (or from the await the task was     *)
(* suspended in) up to the next await that suspends, or to the return.     *)
(***************************************************************************)
EXTENDS Integers, Sequences, FiniteSets, TLC

\* ------------------------------------------------------------- bounds
MaxCalls    == 3    \* calls tasks make into the Backend over one run
MaxFailures == 1    \* polls a wait loop is followed through
MaxInitial  == 1    \* items the models hold when the proxy is made
MaxEvents   == 3    \* calls the sources make to the proxy over one run
MaxPolls    == 600  \* polls of a wait loop followed when it runs alone

\* ------------------------------------------------------------ domains
Users  == {"@a:hs", "@b:hs"}
Tasks  == 1 .. MaxCalls          \* one task per call
Handle == 1 .. MaxCalls + Cardinality(Users)
                                 \* identities of MatrixClient objects

NoClient == 0
NoUser   == "-"

\* `failures % 100 == 0` in get_client, `failures % 300 == 0` in
\* get_any_client                                            (l.145, 165)
WarnClientEvery == 100
WarnAnyEvery    == 300

\* ------------------------------------------------- dict (Python 3.7+)
\* A dict is the sequence of its (key, value) pairs in insertion order.
Keys(d) == {d[i].k : i \in DOMAIN d}

Index(d, key) == CHOOSE i \in DOMAIN d : d[i].k = key

Lookup(d, key) == d[Index(d, key)].v

\* d[key] = value: a present key keeps its position, a new one goes last.
DictSet(d, key, value) ==
    IF key \in Keys(d)
    THEN [d EXCEPT ![Index(d, key)] = [k |-> key, v |-> value]]
    ELSE Append(d, [k |-> key, v |-> value])

\* d.pop(key, None): the dict without key, the order of the rest kept.
DictPop(d, key) ==
    IF key \in Keys(d)
    THEN LET i == Index(d, key)
         IN  [j \in 1 .. Len(d) - 1 |-> IF j < i THEN d[j] ELSE d[j + 1]]
    ELSE d

VARIABLES
    clients,        \* Backend.clients: {user_id: MatrixClient}
    accounts,       \* Backend.models[Account]: {user_id: Account}
    saved_accounts, \* user ids held by Backend.saved_accounts (the config file)
    nextClient,     \* identity of the next MatrixClient constructed
    syncing,        \* the MatrixClient objects whose .syncing is true
    tasks,          \* per task: the coroutine it runs and where it is suspended
    ret,            \* how the call that ended last ended
    profile_cache,      \* Backend.profile_cache: {user_id: response}
    get_profile_locks,  \* Backend.get_profile_locks: {user_id: asyncio.Lock}
    held,           \* per task: the user ids whose lock it has acquired and
                    \* not released
    cache_access,   \* the last access get_profile made to profile_cache
    lsa,            \* the load_saved_accounts() call made at startup
    children,       \* per saved account: the resume() task gather() runs
    models,         \* per sync id: the source Model's {key: item}
    proxy,          \* the ModelProxy's {(sync_id, key): item}
    built,          \* whether ModelProxy.__init__ has run
    accepted,       \* the sync ids of the sources accept_source() accepts
    events,         \* the calls the sources made to the proxy, in order
    call,           \* the last call made to the proxy
    prior,          \* the proxy's {(sync_id, key): item} before that call
    patience,       \* the polls a wait loop is followed through in this run
    rooms           \* per user id: Backend.models[Room, user_id]:
                    \* {room_id: Room}

sessionVars == <<clients, accounts, saved_accounts, nextClient, syncing>>
profileVars == <<profile_cache, get_profile_locks, held, cache_access>>
loadVars    == <<lsa, children>>
proxyVars   == <<models, proxy, built, accepted, events, call, prior>>
taskVars    == <<tasks, ret>>
envVars     == <<patience, rooms>>
vars == <<sessionVars, taskVars, profileVars, loadVars, proxyVars, envVars>>

\* --------------------------------------------------------------- tasks
Idle == [op |-> "none", pc |-> "idle", arg |-> NoUser, client |-> NoClient,
         failures |-> 0, logged |-> 0, cancel |-> FALSE]

NoRet == [op |-> "none", arg |-> NoUser, kind |-> "none", val |-> "-",
          failures |-> 0]

Done == [Idle EXCEPT !.pc = "done"]

Suspended(t) == tasks[t].pc \notin {"idle", "done"}

\* Task t can make its call.  The tasks differ in nothing but their
\* names, so they make their calls in the order of their names.
Free(t) ==
    /\ tasks[t].pc = "idle"
    /\ \A s \in Tasks : s < t => tasks[s].pc # "idle"

\* Task t is resumed normally at the await named pc.
At(t, pc) == tasks[t].pc = pc /\ ~tasks[t].cancel

\* Task t calls op(arg), which suspends at pc.
Start(t, op, arg, pc, client) ==
    /\ tasks' = [tasks EXCEPT ![t] = [op |-> op, pc |-> pc, arg |-> arg,
                    client |-> client, failures |-> 0, logged |-> 0,
                    cancel |-> FALSE]]
    /\ UNCHANGED ret

\* (mutant) the diagnostic is logged on the first pass as well
WarnsAlsoFirst(failures, every) == failures % every = 0

\* `if failures and failures % every == 0`: the pass that found nothing
\* logs its diagnostic                                  (l.145-149, 165-169)
Warns(failures, every) == failures # 0 /\ failures % every = 0

\* The diagnostics a call has logged, after a pass that found nothing
Logged(n, failures, every) == IF Warns(failures, every) THEN n + 1 ELSE n

\* Task t calls a wait loop whose first pass finds nothing: it may log,
\* and it sleeps at pc
StartWait(t, op, arg, pc, every) ==
    /\ tasks' = [tasks EXCEPT ![t] = [op |-> op, pc |-> pc, arg |-> arg,
                    client |-> NoClient, failures |-> 0,
                    logged |-> Logged(0, 0, every), cancel |-> FALSE]]
    /\ UNCHANGED ret

\* The sleep of task t is over, failures += 1, and the next pass finds
\* nothing: it may log, and it sleeps again
NextPass(t, every) ==
    /\ tasks[t].failures < patience
    /\ tasks' = [tasks EXCEPT
                    ![t].failures = @ + 1,
                    ![t].logged = Logged(@, tasks[t].failures + 1, every)]

\* Task t's coroutine ends: kind is "return" or "raise".
Finish(t, op, arg, kind, val, failures) ==
    /\ tasks' = [tasks EXCEPT ![t] = Done]
    /\ ret' = [op |-> op, arg |-> arg, kind |-> kind, val |-> val,
               failures |-> failures]

\* The call of task t ends; the polls counted are those of the wait loop
\* that was called, get_client or get_any_client.
End(t, kind, val) ==
    Finish(t, tasks[t].op, tasks[t].arg, kind, val,
           IF tasks[t].op \in {"get_client", "get_any_client"}
           THEN tasks[t].failures ELSE 0)

Goto(t, pc) ==
    /\ tasks' = [tasks EXCEPT ![t].pc = pc]
    /\ UNCHANGED ret


\* ------------------------------------------------------ login_client
\* (mutant) the client is registered before its login is awaited
login_client_registers_first(t, user) ==
    /\ Free(t)
    /\ clients' = DictSet(clients, user, nextClient)
    /\ accounts' = DictSet(accounts, user, user)
    /\ Start(t, "login_client", user, "login", nextClient)
    /\ nextClient' = nextClient + 1
    /\ UNCHANGED <<saved_accounts, syncing, profileVars, loadVars, proxyVars, envVars>>

\* MatrixClient(...), then `await client.login(password)`        (l.74-79)
login_client(t, user) ==
    /\ Free(t)
    /\ Start(t, "login_client", user, "login", nextClient)
    /\ nextClient' = nextClient + 1
    /\ UNCHANGED <<clients, accounts, saved_accounts, syncing, profileVars, loadVars, proxyVars, envVars>>

\* The entries login_client writes once the login succeeded       (l.84-85)
LoginClients(d, user_id, client) == DictSet(d, user_id, client)

LoginAccounts(d, user_id) == DictSet(d, user_id, user_id)

\* login returned: register the client and return its user id    (l.84-86)
login_ok(t) ==
    /\ At(t, "login")
    /\ clients' = LoginClients(clients, tasks[t].arg, tasks[t].client)
    /\ accounts' = LoginAccounts(accounts, tasks[t].arg)
    /\ End(t, "return", tasks[t].arg)
    /\ UNCHANGED <<saved_accounts, nextClient, syncing, profileVars, loadVars, proxyVars, envVars>>

\* login raised MatrixError: `await client.close()`               (l.80-81)
login_matrix_error(t) ==
    /\ At(t, "login")
    /\ Goto(t, "close")
    /\ UNCHANGED <<sessionVars, profileVars, loadVars, proxyVars, envVars>>

\* close returned: the MatrixError is raised again                   (l.82)
login_reraise(t) ==
    /\ At(t, "close")
    /\ End(t, "raise", "MatrixError")
    /\ UNCHANGED <<sessionVars, profileVars, loadVars, proxyVars, envVars>>

\* ----------------------------------------------------- resume_client
\* The entries resume_client writes before it awaits             (l.101-102)
ResumeClients(d, user_id, client) == DictSet(d, user_id, client)

ResumeAccounts(d, user_id) == DictSet(d, user_id, user_id)

\* MatrixClient(...), register it, then `await client.resume()`  (l.96-104)
resume_client(t, user_id) ==
    /\ Free(t)
    /\ clients' = ResumeClients(clients, user_id, nextClient)
    /\ accounts' = ResumeAccounts(accounts, user_id)
    /\ Start(t, "resume_client", user_id, "resume", nextClient)
    /\ nextClient' = nextClient + 1
    /\ UNCHANGED <<saved_accounts, syncing, profileVars, loadVars, proxyVars, envVars>>

\* resume returned: resume_client returns None                      (l.104)
resume_ok(t) ==
    /\ At(t, "resume")
    /\ End(t, "return", "None")
    /\ UNCHANGED <<sessionVars, profileVars, loadVars, proxyVars, envVars>>

\* (mutant) the registration is undone when resume raises
resume_error_rolls_back(t) ==
    /\ At(t, "resume")
    /\ clients' = DictPop(clients, tasks[t].arg)
    /\ accounts' = DictPop(accounts, tasks[t].arg)
    /\ End(t, "raise", "MatrixError")
    /\ UNCHANGED <<saved_accounts, nextClient, syncing, profileVars, loadVars, proxyVars, envVars>>

\* resume raised: the exception leaves resume_client                (l.104)
resume_error(t) ==
    /\ At(t, "resume")
    /\ End(t, "raise", "MatrixError")
    /\ UNCHANGED <<sessionVars, profileVars, loadVars, proxyVars, envVars>>

\* ----------------------------------------------------- logout_client
\* (mutant) the client is left in the session map
LogoutClientsKept(d, user_id) == d

\* self.clients.pop(user_id, None)                                  (l.128)
LogoutClients(d, user_id) == DictPop(d, user_id)

\* (mutant) the account is left in the collection
LogoutAccountsKept(d, user_id, client) == d

\* self.models[Account].pop(user_id, None), when a client was popped
\*                                                              (l.129-130)
LogoutAccounts(d, user_id, client) ==
    IF client # NoClient THEN DictPop(d, user_id) ELSE d

\* Pop the client; with one, pop the account and `await client.logout()`;
\* without, `await self.saved_accounts.delete(user_id)`          (l.128-133)
logout_client(t, user_id) ==
    LET client == IF user_id \in Keys(clients)
                  THEN Lookup(clients, user_id) ELSE NoClient
    IN  /\ Free(t)
        /\ clients' = LogoutClients(clients, user_id)
        /\ accounts' = LogoutAccounts(accounts, user_id, client)
        /\ Start(t, "logout_client", user_id,
                 IF client # NoClient THEN "logout" ELSE "delete", client)
        /\ UNCHANGED <<saved_accounts, nextClient, syncing, profileVars, loadVars, proxyVars, envVars>>

\* logout returned: `await self.saved_accounts.delete(user_id)`     (l.133)
logout_done(t) ==
    /\ At(t, "logout")
    /\ Goto(t, "delete")
    /\ UNCHANGED <<sessionVars, profileVars, loadVars, proxyVars, envVars>>

\* logout raised: the exception leaves logout_client                (l.131)
logout_error(t) ==
    /\ At(t, "logout")
    /\ End(t, "raise", "MatrixError")
    /\ UNCHANGED <<sessionVars, profileVars, loadVars, proxyVars, envVars>>

\* the saved account is deleted: logout_client returns None        (l.133)
delete_done(t) ==
    /\ At(t, "delete")
    /\ saved_accounts' = saved_accounts \ {tasks[t].arg}
    /\ End(t, "return", "None")
    /\ UNCHANGED <<clients, accounts, nextClient, syncing, profileVars, loadVars, proxyVars, envVars>>

\* -------------------------------------------------------- get_client
\* (mutant) any registered client will do
ClientForAny(d, user_id) == IF d # <<>> THEN d[1].v ELSE NoClient

\* One pass of get_client's loop: the client when user_id is registered,
\* NoClient when the pass ends in the sleep                      (l.142-151)
ClientFor(d, user_id) ==
    IF user_id \in Keys(d) THEN Lookup(d, user_id) ELSE NoClient

\* The call runs the first pass of the loop                      (l.139-151)
get_client(t, user_id) ==
    /\ Free(t)
    /\ IF ClientFor(clients, user_id) # NoClient
       THEN Finish(t, "get_client", user_id, "return",
                   ClientFor(clients, user_id), 0)
       ELSE StartWait(t, "get_client", user_id, "gc_sleep", WarnClientEvery)
    /\ UNCHANGED <<sessionVars, profileVars, loadVars, proxyVars, envVars>>

\* The sleep is over: failures += 1 and the next pass            (l.141-152)
get_client_poll(t) ==
    /\ At(t, "gc_sleep")
    /\ IF ClientFor(clients, tasks[t].arg) # NoClient
       THEN Finish(t, "get_client", tasks[t].arg, "return",
                   ClientFor(clients, tasks[t].arg), tasks[t].failures + 1)
       ELSE NextPass(t, WarnClientEvery) /\ UNCHANGED ret
    /\ UNCHANGED <<sessionVars, profileVars, loadVars, proxyVars, envVars>>

\* ---------------------------------------------------- get_any_client
Min(S) == CHOOSE x \in S : \A y \in S : x <= y

Max(S) == CHOOSE x \in S : \A y \in S : x >= y

\* (mutant) the last syncing client instead of the first
AnyClientLast(d, sync) ==
    LET healthy == {i \in DOMAIN d : d[i].v \in sync}
    IN  IF healthy = {} THEN NoClient ELSE d[Max(healthy)].v

\* One pass of get_any_client's loop: the first client in
\* self.clients.values() whose .syncing is true, NoClient when there is
\* none and the pass ends in the sleep                           (l.161-171)
AnyClient(d, sync) ==
    LET healthy == {i \in DOMAIN d : d[i].v \in sync}
    IN  IF healthy = {} THEN NoClient ELSE d[Min(healthy)].v

\* The call runs the first pass of the loop                      (l.158-171)
get_any_client(t) ==
    /\ Free(t)
    /\ IF AnyClient(clients, syncing) # NoClient
       THEN Finish(t, "get_any_client", NoUser, "return",
                   AnyClient(clients, syncing), 0)
       ELSE StartWait(t, "get_any_client", NoUser, "gac_sleep", WarnAnyEvery)
    /\ UNCHANGED <<sessionVars, profileVars, loadVars, proxyVars, envVars>>

\* The sleep is over: failures += 1 and the next pass            (l.160-172)
get_any_client_poll(t) ==
    /\ At(t, "gac_sleep")
    /\ IF AnyClient(clients, syncing) # NoClient
       THEN Finish(t, "get_any_client", NoUser, "return",
                   AnyClient(clients, syncing), tasks[t].failures + 1)
       ELSE NextPass(t, WarnAnyEvery) /\ UNCHANGED ret
    /\ UNCHANGED <<sessionVars, profileVars, loadVars, proxyVars, envVars>>

\* ------------------------------------------------------- MatrixClient
\* A registered client starts or stops syncing (MatrixClient.syncing is
\* the client's own state; the Backend only reads it)               (l.162)
set_syncing(c) ==
    /\ c \in {clients[i].v : i \in DOMAIN clients}
    /\ syncing' = IF c \in syncing THEN syncing \ {c} ELSE syncing \cup {c}
    /\ UNCHANGED <<clients, accounts, saved_accounts, nextClient, tasks, ret,
                   profileVars, loadVars, proxyVars, envVars>>


\* ------------------------------------------------------- asyncio.Lock
\* get_profile_locks is a DefaultDict(asyncio.Lock): a lock is a record
\* of CPython's Lock._locked and Lock._waiters, the queue of the futures
\* of the tasks suspended in acquire().  A waiter's future is "pending",
\* "woken" (set_result was called) or "cancelled".
NewLock == [locked |-> FALSE, waiters |-> <<>>]

\* self.get_profile_locks[user_id]: the lock is made on first use (l.49-50)
LockFor(locks, user_id) ==
    IF user_id \in DOMAIN locks THEN locks
    ELSE [u \in DOMAIN locks \cup {user_id} |->
             IF u = user_id THEN NewLock ELSE locks[u]]

\* (mutant) the lock is taken whether it is free or not
CanAcquireAlways(lock) == TRUE

\* Lock.acquire() takes the lock without suspending: it is free and every
\* queued waiter has been cancelled                                 (l.183)
CanAcquire(lock) ==
    /\ ~lock.locked
    /\ \A i \in DOMAIN lock.waiters : lock.waiters[i].st = "cancelled"

\* Lock._wake_up_first(): set the first waiter's future, if it is pending
WakeUpFirst(waiters) ==
    IF waiters # <<>> /\ waiters[1].st = "pending"
    THEN [waiters EXCEPT ![1].st = "woken"]
    ELSE waiters

WithoutWaiter(waiters, t) == SelectSeq(waiters, LAMBDA w : w.task # t)

WaiterOf(lock, t) ==
    lock.waiters[CHOOSE i \in DOMAIN lock.waiters : lock.waiters[i].task = t]

\* Lock.acquire() without suspending: self._locked = True
Acquire(locks, user_id) ==
    [locks EXCEPT ![user_id].locked = TRUE]

\* Lock.acquire() that has to wait: its future joins the queue
Enqueue(locks, user_id, t) ==
    [locks EXCEPT ![user_id].waiters =
                      Append(@, [task |-> t, st |-> "pending"])]

\* Lock.acquire() resumed by its future: it leaves the queue and takes
\* the lock
AcquireWoken(locks, user_id, t) ==
    [locks EXCEPT ![user_id] =
        [locked |-> TRUE, waiters |-> WithoutWaiter(@.waiters, t)]]

\* Lock.acquire() resumed by CancelledError: it leaves the queue and,
\* when the lock is free, wakes the next waiter
AcquireCancelled(locks, user_id, t) ==
    [locks EXCEPT ![user_id].waiters =
        IF locks[user_id].locked THEN WithoutWaiter(@, t)
        ELSE WakeUpFirst(WithoutWaiter(@, t))]

\* Lock.release(), which `async with` calls on every way out of its
\* block: the lock is free and the first waiter is woken    (l.183-191)
Release(locks, user_id) ==
    [locks EXCEPT ![user_id] =
        [locked |-> FALSE, waiters |-> WakeUpFirst(@.waiters)]]

\* ------------------------------------------------------- get_profile
\* What client.get_profile(user_id) answered with
Response(user_id) == [user_id |-> user_id]

\* The lock is taken: `await self.get_any_client()` runs its first pass,
\* and with a client `await client.get_profile(user_id)`    (l.184-185)
EnterSection(t, user_id) ==
    LET client == AnyClient(clients, syncing)
    IN  /\ held' = [held EXCEPT ![t] = @ \cup {user_id}]
        /\ IF client # NoClient
           THEN Start(t, "get_profile", user_id, "gp_fetch", client)
           ELSE StartWait(t, "get_profile", user_id, "gp_sleep",
                          WarnAnyEvery)

\* The call: the cache is looked up, then the lock is taken or waited
\* for                                                        (l.180-184)
get_profile(t, user_id) ==
    /\ Free(t)
    /\ cache_access' = [kind |-> "read", locked |-> user_id \in held[t]]
    /\ IF user_id \in DOMAIN profile_cache
       THEN /\ Finish(t, "get_profile", user_id, "return",
                      profile_cache[user_id], 0)
            /\ UNCHANGED <<get_profile_locks, held>>
       ELSE IF CanAcquire(LockFor(get_profile_locks, user_id)[user_id])
       THEN /\ get_profile_locks' =
                  Acquire(LockFor(get_profile_locks, user_id), user_id)
            /\ EnterSection(t, user_id)
       ELSE /\ get_profile_locks' =
                  Enqueue(LockFor(get_profile_locks, user_id), user_id, t)
            /\ Start(t, "get_profile", user_id, "gp_lock", NoClient)
            /\ UNCHANGED held
    /\ UNCHANGED <<sessionVars, profile_cache, loadVars, proxyVars, envVars>>

\* acquire() is resumed: the lock is taken                         (l.183)
get_profile_locked(t) ==
    /\ At(t, "gp_lock")
    /\ WaiterOf(get_profile_locks[tasks[t].arg], t).st = "woken"
    /\ get_profile_locks' = AcquireWoken(get_profile_locks, tasks[t].arg, t)
    /\ EnterSection(t, tasks[t].arg)
    /\ UNCHANGED <<sessionVars, profile_cache, cache_access, loadVars,
                   proxyVars, envVars>>

\* get_any_client's sleep is over: failures += 1 and the next pass,
\* inside the `async with` block; with a client get_any_client returns
\* (its failures is gone) and the fetch is awaited    (l.160-172, 184-185)
get_profile_poll(t) ==
    LET client == AnyClient(clients, syncing)
    IN  /\ At(t, "gp_sleep")
        /\ IF client # NoClient
           THEN tasks' = [tasks EXCEPT ![t].pc = "gp_fetch",
                                       ![t].client = client,
                                       ![t].failures = 0,
                                       ![t].logged = 0]
           ELSE NextPass(t, WarnAnyEvery)
        /\ UNCHANGED <<sessionVars, ret, profile_cache, get_profile_locks,
                       held, cache_access, loadVars, proxyVars, envVars>>

\* The way out of the `async with` block of task t
ExitSection(t) ==
    /\ get_profile_locks' = Release(get_profile_locks, tasks[t].arg)
    /\ held' = [held EXCEPT ![t] = @ \ {tasks[t].arg}]

\* The fetch answered with a profile: it is cached and returned
\*                                                            (l.190-191)
get_profile_ok(t) ==
    LET response == Response(tasks[t].arg)
    IN  /\ At(t, "gp_fetch")
        /\ cache_access' =
               [kind |-> "write", locked |-> tasks[t].arg \in held[t]]
        /\ profile_cache' =
               [u \in DOMAIN profile_cache \cup {tasks[t].arg} |->
                   IF u = tasks[t].arg THEN response ELSE profile_cache[u]]
        /\ ExitSection(t)
        /\ End(t, "return", response)
        /\ UNCHANGED <<sessionVars, loadVars, proxyVars, envVars>>

\* (mutant) the error response is cached before MatrixError is raised
get_profile_error_cached(t) ==
    /\ At(t, "gp_fetch")
    /\ cache_access' =
           [kind |-> "write", locked |-> tasks[t].arg \in held[t]]
    /\ profile_cache' =
           [u \in DOMAIN profile_cache \cup {tasks[t].arg} |->
               IF u = tasks[t].arg
               THEN [user_id |-> u, error |-> "ProfileGetError"]
               ELSE profile_cache[u]]
    /\ ExitSection(t)
    /\ End(t, "raise", "MatrixError")
    /\ UNCHANGED <<sessionVars, loadVars, proxyVars, envVars>>

\* (mutant) the lock is not released when MatrixError is raised
get_profile_error_locked(t) ==
    /\ At(t, "gp_fetch")
    /\ End(t, "raise", "MatrixError")
    /\ UNCHANGED <<sessionVars, profileVars, loadVars, proxyVars, envVars>>

\* The fetch answered with a nio.ProfileGetError: MatrixError is raised
\*                                                            (l.187-188)
get_profile_error(t) ==
    /\ At(t, "gp_fetch")
    /\ ExitSection(t)
    /\ End(t, "raise", "MatrixError")
    /\ UNCHANGED <<sessionVars, profile_cache, cache_access,
                   loadVars, proxyVars, envVars>>

\* client.get_profile() itself raised                              (l.185)
get_profile_exception(t) ==
    /\ At(t, "gp_fetch")
    /\ ExitSection(t)
    /\ End(t, "raise", "Exception")
    /\ UNCHANGED <<sessionVars, profile_cache, cache_access,
                   loadVars, proxyVars, envVars>>

\* ------------------------------------------------------- cancellation
\* Task.cancel() on a suspended task: the future it waits for is
\* cancelled, unless it is done already, and the task will be resumed
\* with CancelledError
cancel(t) ==
    /\ Suspended(t)
    /\ ~tasks[t].cancel
    /\ tasks' = [tasks EXCEPT ![t].cancel = TRUE]
    /\ get_profile_locks' =
           IF tasks[t].pc = "gp_lock"
           THEN [get_profile_locks EXCEPT ![tasks[t].arg].waiters =
                    [i \in DOMAIN @ |->
                        IF @[i].task = t /\ @[i].st = "pending"
                        THEN [@[i] EXCEPT !.st = "cancelled"] ELSE @[i]]]
           ELSE get_profile_locks
    /\ UNCHANGED <<sessionVars, ret, profile_cache, held, cache_access,
                   loadVars, proxyVars, envVars>>

\* CancelledError is raised at an await outside get_profile's lock: it
\* leaves the coroutine (it is no MatrixError, l.80)
cancelled(t) ==
    /\ tasks[t].cancel
    /\ tasks[t].pc \notin {"gp_lock", "gp_sleep", "gp_fetch"}
    /\ End(t, "raise", "CancelledError")
    /\ UNCHANGED <<sessionVars, profileVars, loadVars, proxyVars, envVars>>

\* CancelledError is raised in Lock.acquire()                      (l.183)
cancelled_acquire(t) ==
    /\ tasks[t].cancel
    /\ tasks[t].pc = "gp_lock"
    /\ get_profile_locks' =
           AcquireCancelled(get_profile_locks, tasks[t].arg, t)
    /\ End(t, "raise", "CancelledError")
    /\ UNCHANGED <<sessionVars, profile_cache, held, cache_access,
                   loadVars, proxyVars, envVars>>

\* CancelledError is raised inside the `async with` block    (l.184-185)
cancelled_section(t) ==
    /\ tasks[t].cancel
    /\ tasks[t].pc \in {"gp_sleep", "gp_fetch"}
    /\ ExitSection(t)
    /\ End(t, "raise", "CancelledError")
    /\ UNCHANGED <<sessionVars, profile_cache, cache_access,
                   loadVars, proxyVars, envVars>>


\* ------------------------------------------------ load_saved_accounts
NoOuter == [st |-> "none", val |-> {}]

\* The call: `await self.saved_accounts.read()`                    (l.121)
load_saved_accounts ==
    /\ lsa.pc = "idle"
    /\ lsa' = [lsa EXCEPT !.pc = "read"]
    /\ UNCHANGED <<sessionVars, taskVars, profileVars, children, proxyVars, envVars>>

\* read() returned: gather() makes one task per saved account and
\* load_saved_accounts awaits gather's future; without any account the
\* future is done at once and the empty result is returned   (l.119-122)
load_gather ==
    /\ lsa.pc = "read"
    /\ children' = [u \in Users |->
                      IF u \in saved_accounts THEN "scheduled" ELSE "none"]
    /\ lsa' = IF saved_accounts = {}
              THEN [pc |-> "done", outer |-> NoOuter,
                    ret |-> [kind |-> "return", val |-> {}]]
              ELSE [lsa EXCEPT !.pc = "gather",
                               !.outer = [st |-> "pending", val |-> {}]]
    /\ UNCHANGED <<sessionVars, taskVars, profileVars, proxyVars, envVars>>

\* A task of gather() starts: resume() calls resume_client(), which
\* registers the client and awaits client.resume()    (l.110-116, 96-104)
child_start(user_id) ==
    /\ children[user_id] = "scheduled"
    /\ clients' = ResumeClients(clients, user_id, nextClient)
    /\ accounts' = ResumeAccounts(accounts, user_id)
    /\ nextClient' = nextClient + 1
    /\ children' = [children EXCEPT ![user_id] = "resume"]
    /\ UNCHANGED <<saved_accounts, syncing, taskVars, profileVars, lsa,
                   proxyVars, envVars>>

\* gather() without return_exceptions: its future takes the results once
\* every task has returned, and the first exception as soon as a task
\* raises; the other tasks run on                                  (l.119)
Gathered(outer, kids, user_id) ==
    IF outer.st # "pending" THEN outer
    ELSE IF kids[user_id] = "raised"
         THEN [st |-> "exception", val |-> {user_id}]
    ELSE IF \A u \in Users : kids[u] \in {"none", "done"}
         THEN [st |-> "result", val |-> {u \in Users : kids[u] = "done"}]
    ELSE outer

\* client.resume() returned: resume() returns user_id        (l.104, 117)
child_ok(user_id) ==
    /\ children[user_id] = "resume"
    /\ children' = [children EXCEPT ![user_id] = "done"]
    /\ lsa' = [lsa EXCEPT !.outer = Gathered(@, children', user_id)]
    /\ UNCHANGED <<sessionVars, taskVars, profileVars, proxyVars, envVars>>

\* client.resume() raised: the exception leaves resume()           (l.104)
child_error(user_id) ==
    /\ children[user_id] = "resume"
    /\ children' = [children EXCEPT ![user_id] = "raised"]
    /\ lsa' = [lsa EXCEPT !.outer = Gathered(@, children', user_id)]
    /\ UNCHANGED <<sessionVars, taskVars, profileVars, proxyVars, envVars>>

\* `await asyncio.gather(...)` is resumed: with the results, which are
\* returned, or with the exception, which is raised                (l.119)
load_done ==
    /\ lsa.pc = "gather"
    /\ lsa.outer.st \in {"result", "exception"}
    /\ lsa' = [lsa EXCEPT !.pc = "done",
                  !.ret = [kind |-> IF lsa.outer.st = "result"
                                    THEN "return" ELSE "raise",
                           val |-> lsa.outer.val]]
    /\ UNCHANGED <<sessionVars, taskVars, profileVars, children, proxyVars, envVars>>


\* ------------------------------------------- get_flat_mainpane_data
RoomIds == {"!r1:hs", "!r2:hs"}

\* The order `<` puts Account items and Room items in: that of their ids
UserOrder == <<"@a:hs", "@b:hs">>
RoomOrder == <<"!r1:hs", "!r2:hs">>

\* (mutant) the items are walked in the order the model holds them in
Unsorted(d, order) == [i \in DOMAIN d |-> d[i].v]

\* sorted(model.values())                                    (l.249, 257)
Sorted(d, order) ==
    SelectSeq(order, LAMBDA x : x \in {d[i].v : i \in DOMAIN d})

\* The record of an account                                   (l.250-255)
AccountData(account) ==
    [type |-> "Account", id |-> account, user_id |-> account,
     data |-> account]

\* The record of a room of an account                         (l.258-263)
RoomData(account, room) ==
    [type |-> "Room", id |-> account \o "/" \o room, user_id |-> account,
     data |-> room]

\* The loop over the accounts left to walk, each followed by the loop
\* over its rooms                                             (l.249-263)
RECURSIVE FlatData(_, _)
FlatData(todo, rms) ==
    IF todo = <<>> THEN <<>>
    ELSE LET account == Head(todo)
             sorted  == Sorted(rms[account], RoomOrder)
         IN  <<AccountData(account)>>
             \o [i \in DOMAIN sorted |-> RoomData(account, sorted[i])]
             \o FlatData(Tail(todo), rms)

\* get_flat_mainpane_data(): it awaits nothing                (l.244-265)
get_flat_mainpane_data(t) ==
    /\ Free(t)
    /\ Finish(t, "get_flat_mainpane_data", NoUser, "return",
              FlatData(Sorted(accounts, UserOrder), rooms), 0)
    /\ UNCHANGED <<sessionVars, profileVars, loadVars, proxyVars, envVars>>

\* self.models[Room, user_id][room_id] = Room(...): a client records a
\* room its account is in
room_set(user_id, room_id) ==
    /\ rooms' = [rooms EXCEPT ![user_id] = DictSet(@, room_id, room_id)]
    /\ UNCHANGED <<sessionVars, taskVars, profileVars, loadVars, proxyVars,
                   patience>>

\* ------------------------------------------------------------- Model
\* A Model is a mapping {key: item}: a function on the keys it holds.
SyncIds  == {"Account", "Room"}
ItemKeys == {"k1", "k2"}
Items    == {"i1", "i2"}

Empty == [x \in {} |-> "i1"]

\* Model.__setitem__: key is inserted or its item replaced
ModelSet(m, key, item) ==
    [x \in DOMAIN m \cup {key} |-> IF x = key THEN item ELSE m[x]]

\* Model.__delitem__: key is removed
ModelDelete(m, key) == [x \in DOMAIN m \ {key} |-> m[x]]

\* Model.__delitem__ of a key the model does not hold removes nothing and
\* raises nothing
ModelDeleteRaises(m, key) == FALSE

\* ---------------------------------------------------------- ModelProxy
\* A call made to the proxy: its __init__ or one of its source_* methods
Call(op, source, key, item) ==
    [op |-> op, source |-> source, key |-> key, item |-> item,
     kind |-> "return"]

\* The call raised instead of returning
Raised(c) == [c EXCEPT !.kind = "raise"]

NoCall == Call("none", "-", "-", "-")

\* accept_source(source): True in ModelProxy, overridden by the proxies
\* that filter; `accepted` holds the sources the proxy at hand accepts
\*                                                             (l.26-27)
accept_source(source) == source \in accepted

\* (mutant) the item is mirrored whatever accept_source answers
source_item_set_unfiltered(p, source, key, value) ==
    ModelSet(p, <<source, key>>, value)

\* source_item_set(source, key, value)                         (l.30-32)
source_item_set(p, source, key, value) ==
    IF accept_source(source) THEN ModelSet(p, <<source, key>>, value) ELSE p

\* (mutant) the entries under key go, whichever source they came from
source_item_deleted_any_source(p, source, key) ==
    IF accept_source(source)
    THEN [x \in {y \in DOMAIN p : y[2] # key} |-> p[x]]
    ELSE p

\* (mutant) every entry of the source goes, not the one under key
source_item_deleted_whole_source(p, source, key) ==
    IF accept_source(source)
    THEN [x \in {y \in DOMAIN p : y[1] # source} |-> p[x]]
    ELSE p

\* source_item_deleted(source, key)                            (l.35-37)
source_item_deleted(p, source, key) ==
    IF accept_source(source) THEN ModelDelete(p, <<source, key>>) ELSE p

\* Whether source_item_deleted(source, key) raises: what its `del`
\* raises is not caught                                        (l.36-37)
source_item_deleted_raises(p, source, key) ==
    accept_source(source) /\ ModelDeleteRaises(p, <<source, key>>)

\* The loop of source_cleared over self.copy(): `todo` are the keys of
\* the copy not visited yet                                    (l.42-44)
RECURSIVE ClearLoop(_, _, _)
ClearLoop(p, todo, source) ==
    IF todo = {} THEN p
    ELSE LET ck == CHOOSE ck \in todo : TRUE
         IN  ClearLoop(IF ck[1] = source THEN ModelDelete(p, ck) ELSE p,
                       todo \ {ck}, source)

\* (mutant) every entry is removed, whatever its source
source_cleared_all(p, source) ==
    IF accept_source(source) THEN Empty ELSE p

\* source_cleared(source)                                      (l.40-44)
source_cleared(p, source) ==
    IF accept_source(source) THEN ClearLoop(p, DOMAIN p, source) ELSE p

\* The (sync_id, key) pairs of the models, in an order of iteration
RECURSIVE SeqOf(_)
SeqOf(S) ==
    IF S = {} THEN <<>>
    ELSE LET x == CHOOSE x \in S : TRUE IN <<x>> \o SeqOf(S \ {x})

\* (mutant) the proxy registers itself and mirrors nothing
InitCallsNone == <<>>

\* The source_item_set calls ModelProxy.__init__ makes: one per item of
\* every accepted model that exists already.  The proxy's own entry in
\* Model.instances is passed over (l.18); it holds nothing yet.  (l.17-23)
InitCalls ==
    LET pairs == SeqOf({sk \in SyncIds \X ItemKeys :
                          /\ accept_source(sk[1])
                          /\ sk[2] \in DOMAIN models[sk[1]]})
    IN  [i \in DOMAIN pairs |->
            Call("set", pairs[i][1], pairs[i][2],
                 models[pairs[i][1]][pairs[i][2]])]

RECURSIVE Mirror(_, _)
Mirror(p, calls) ==
    IF calls = <<>> THEN p
    ELSE Mirror(source_item_set(p, Head(calls).source, Head(calls).key,
                                Head(calls).item), Tail(calls))

\* ModelProxy.__init__                                         (l.13-23)
proxy_init ==
    /\ ~built
    /\ built' = TRUE
    /\ proxy' = Mirror(proxy, InitCalls)
    /\ events' = events \o InitCalls
    /\ call' = Call("init", "-", "-", "-")
    /\ prior' = proxy
    /\ UNCHANGED <<sessionVars, taskVars, profileVars, loadVars, models,
                   accepted, envVars>>

\* source[key] = item: the source calls the proxy's source_item_set
\* before __setitem__ returns
model_set(source, key, item) ==
    /\ built
    /\ Len(events) < MaxEvents
    /\ models' = [models EXCEPT ![source] = ModelSet(@, key, item)]
    /\ proxy' = source_item_set(proxy, source, key, item)
    /\ events' = Append(events, Call("set", source, key, item))
    /\ call' = Call("set", source, key, item)
    /\ prior' = proxy
    /\ UNCHANGED <<sessionVars, taskVars, profileVars, loadVars, built,
                   accepted, envVars>>

\* del source[key] of a key the source holds: the source calls the
\* proxy's source_item_deleted before __delitem__ returns
model_delete(source, key) ==
    /\ built
    /\ Len(events) < MaxEvents
    /\ key \in DOMAIN models[source]
    /\ models' = [models EXCEPT ![source] = ModelDelete(@, key)]
    /\ proxy' = source_item_deleted(proxy, source, key)
    /\ events' = Append(events, Call("delete", source, key, "-"))
    /\ call' = Call("delete", source, key, "-")
    /\ prior' = proxy
    /\ UNCHANGED <<sessionVars, taskVars, profileVars, loadVars, built,
                   accepted, envVars>>

\* source.clear(): the source calls the proxy's source_cleared before
\* clear() returns
model_clear(source) ==
    /\ built
    /\ Len(events) < MaxEvents
    /\ models' = [models EXCEPT ![source] = Empty]
    /\ proxy' = source_cleared(proxy, source)
    /\ events' = Append(events, Call("clear", source, "-", "-"))
    /\ call' = Call("clear", source, "-", "-")
    /\ prior' = proxy
    /\ UNCHANGED <<sessionVars, taskVars, profileVars, loadVars, built,
                   accepted, envVars>>

\* source_item_set(source, key, value) is called on the proxy  (l.30-32)
deliver_set(source, key, value) ==
    /\ built
    /\ proxy' = source_item_set(proxy, source, key, value)
    /\ call' = Call("set", source, key, value)
    /\ prior' = proxy
    /\ UNCHANGED <<sessionVars, taskVars, profileVars, loadVars, models,
                   built, accepted, events, envVars>>

\* source_item_deleted(source, key) is called on the proxy, whether or
\* not the proxy holds (source.sync_id, key)                   (l.35-37)
deliver_delete(source, key) ==
    /\ built
    /\ IF source_item_deleted_raises(proxy, source, key)
       THEN /\ proxy' = proxy
            /\ call' = Raised(Call("delete", source, key, "-"))
       ELSE /\ proxy' = source_item_deleted(proxy, source, key)
            /\ call' = Call("delete", source, key, "-")
    /\ prior' = proxy
    /\ UNCHANGED <<sessionVars, taskVars, profileVars, loadVars, models,
                   built, accepted, events, envVars>>

\* source_cleared(source) is called on the proxy               (l.40-44)
deliver_clear(source) ==
    /\ built
    /\ proxy' = source_cleared(proxy, source)
    /\ call' = Call("clear", source, "-", "-")
    /\ prior' = proxy
    /\ UNCHANGED <<sessionVars, taskVars, profileVars, loadVars, models,
                   built, accepted, events, envVars>>

\* ------------------------------------------------------- specifications
\* Backend.__init__                                            (l.28-57)
InitBackend ==
    /\ clients = <<>>
    /\ accounts = <<>>
    /\ nextClient = 1
    /\ syncing = {}
    /\ tasks = [t \in Tasks |-> Idle]
    /\ ret = NoRet
    /\ profile_cache = Empty
    /\ get_profile_locks = Empty
    /\ held = [t \in Tasks |-> {}]
    /\ cache_access = [kind |-> "none", locked |-> FALSE]
    /\ lsa = [pc |-> "idle", outer |-> NoOuter,
              ret |-> [kind |-> "none", val |-> {}]]
    /\ children = [u \in Users |-> "none"]
    /\ rooms = [u \in Users |-> <<>>]

\* No ModelProxy yet, and models that hold nothing
InitNoProxy ==
    /\ models = [s \in SyncIds |-> Empty]
    /\ proxy = Empty
    /\ built = FALSE
    /\ accepted = SyncIds
    /\ events = <<>>
    /\ call = NoCall
    /\ prior = Empty

\* Clients are logged in, resumed and logged out while tasks wait for
\* them in get_client
InitSessions ==
    /\ InitBackend /\ InitNoProxy
    /\ saved_accounts = Users
    /\ patience = MaxFailures

NextSessions ==
    \/ \E t \in Tasks, u \in Users : login_client(t, u)
    \/ \E t \in Tasks : login_ok(t)
    \/ \E t \in Tasks : login_matrix_error(t)
    \/ \E t \in Tasks : login_reraise(t)
    \/ \E t \in Tasks, u \in Users : resume_client(t, u)
    \/ \E t \in Tasks : resume_ok(t)
    \/ \E t \in Tasks : resume_error(t)
    \/ \E t \in Tasks, u \in Users : logout_client(t, u)
    \/ \E t \in Tasks : logout_done(t)
    \/ \E t \in Tasks : logout_error(t)
    \/ \E t \in Tasks : delete_done(t)
    \/ \E t \in Tasks, u \in Users : get_client(t, u)
    \/ \E t \in Tasks : get_client_poll(t)

SpecSessions == InitSessions /\ [][NextSessions]_vars

\* asyncio.sleep(0.1) ends: the event loop resumes every sleeping task
SpecSessionsFair ==
    SpecSessions /\ \A t \in Tasks : WF_vars(get_client_poll(t))

\* Tasks wait in get_any_client while clients are resumed and logged out,
\* and start and stop syncing
NextAnyClient ==
    \/ \E t \in Tasks : get_any_client(t)
    \/ \E t \in Tasks : get_any_client_poll(t)
    \/ \E c \in Handle : set_syncing(c)
    \/ \E t \in Tasks, u \in Users : resume_client(t, u)
    \/ \E t \in Tasks : resume_ok(t)
    \/ \E t \in Tasks, u \in Users : logout_client(t, u)
    \/ \E t \in Tasks : logout_done(t)
    \/ \E t \in Tasks : delete_done(t)

SpecAnyClient == InitSessions /\ [][NextAnyClient]_vars

\* Profiles are fetched, and the fetching tasks cancelled, while the one
\* saved account is resumed at startup and its client starts and stops
\* syncing
InitProfile ==
    /\ InitBackend /\ InitNoProxy
    /\ saved_accounts = {CHOOSE u \in Users : TRUE}
    /\ patience = MaxFailures

NextProfile ==
    \/ \E t \in Tasks, u \in Users : get_profile(t, u)
    \/ \E t \in Tasks : get_profile_locked(t)
    \/ \E t \in Tasks : get_profile_poll(t)
    \/ \E t \in Tasks : get_profile_ok(t)
    \/ \E t \in Tasks : get_profile_error(t)
    \/ \E t \in Tasks : get_profile_exception(t)
    \/ \E t \in Tasks : cancel(t)
    \/ \E t \in Tasks : cancelled_acquire(t)
    \/ \E t \in Tasks : cancelled_section(t)
    \/ load_saved_accounts
    \/ load_gather
    \/ \E u \in Users : child_start(u)
    \/ \E u \in Users : child_ok(u)
    \/ load_done
    \/ \E c \in Handle : set_syncing(c)

SpecProfile == InitProfile /\ [][NextProfile]_vars

\* The saved accounts are resumed at startup while clients are logged out
InitLoad ==
    /\ InitBackend /\ InitNoProxy
    /\ saved_accounts \in SUBSET Users
    /\ patience = MaxFailures

NextLoad ==
    \/ load_saved_accounts
    \/ load_gather
    \/ \E u \in Users : child_start(u)
    \/ \E u \in Users : child_ok(u)
    \/ \E u \in Users : child_error(u)
    \/ load_done
    \/ \E t \in Tasks, u \in Users : logout_client(t, u)
    \/ \E t \in Tasks : logout_done(t)
    \/ \E t \in Tasks : delete_done(t)

SpecLoad == InitLoad /\ [][NextLoad]_vars

\* The models that exist when the proxy is made hold at most MaxInitial
\* items; the proxy accepts any set of sources
InitProxy ==
    /\ InitBackend
    /\ saved_accounts = Users
    /\ patience = MaxFailures
    /\ models \in [SyncIds -> UNION {[K -> Items] : K \in SUBSET ItemKeys}]
    /\ Cardinality({sk \in SyncIds \X ItemKeys :
                       sk[2] \in DOMAIN models[sk[1]]}) <= MaxInitial
    /\ proxy = Empty
    /\ built = FALSE
    /\ accepted \in SUBSET SyncIds
    /\ events = <<>>
    /\ call = NoCall
    /\ prior = Empty

NextProxy ==
    \/ proxy_init
    \/ \E s \in SyncIds, k \in ItemKeys, i \in Items : model_set(s, k, i)
    \/ \E s \in SyncIds, k \in ItemKeys : model_delete(s, k)
    \/ \E s \in SyncIds : model_clear(s)

SpecProxy == InitProxy /\ [][NextProxy]_vars

\* A proxy made while the models held nothing is called with any
\* arguments, whatever the sources hold
InitHandlers ==
    /\ InitBackend
    /\ saved_accounts = Users
    /\ patience = MaxFailures
    /\ models = [s \in SyncIds |-> Empty]
    /\ proxy = Empty
    /\ built = TRUE
    /\ accepted \in SUBSET SyncIds
    /\ events = <<>>
    /\ call = Call("init", "-", "-", "-")
    /\ prior = Empty

NextHandlers ==
    \/ \E s \in SyncIds, k \in ItemKeys, i \in Items : deliver_set(s, k, i)
    \/ \E s \in SyncIds, k \in ItemKeys : deliver_delete(s, k)
    \/ \E s \in SyncIds : deliver_clear(s)

SpecHandlers == InitHandlers /\ [][NextHandlers]_vars

\* One task waits in get_client or in get_any_client, and is followed
\* through MaxPolls polls, while the one saved account is resumed at
\* startup and its client starts and stops syncing
InitWait ==
    /\ InitBackend /\ InitNoProxy
    /\ saved_accounts = {CHOOSE u \in Users : TRUE}
    /\ patience = MaxPolls

NextWait ==
    \/ \E u \in Users : get_client(1, u)
    \/ get_client_poll(1)
    \/ get_any_client(1)
    \/ get_any_client_poll(1)
    \/ load_saved_accounts
    \/ load_gather
    \/ \E u \in Users : child_start(u)
    \/ \E u \in Users : child_ok(u)
    \/ load_done
    \/ \E c \in Handle : set_syncing(c)

SpecWait == InitWait /\ [][NextWait]_vars

\* The main pane is read while accounts are resumed and their clients
\* record rooms
NextMainpane ==
    \/ \E t \in Tasks, u \in Users : resume_client(t, u)
    \/ \E t \in Tasks : resume_ok(t)
    \/ \E u \in Users, r \in RoomIds : room_set(u, r)
    \/ \E t \in Tasks : get_flat_mainpane_data(t)

SpecMainpane == InitSessions /\ [][NextMainpane]_vars

\* Clients are resumed, start and stop syncing and are logged out while
\* tasks look them up with get_client and get_any_client
NextLogout ==
    \/ \E t \in Tasks, u \in Users : resume_client(t, u)
    \/ \E t \in Tasks : resume_ok(t)
    \/ \E t \in Tasks, u \in Users : logout_client(t, u)
    \/ \E t \in Tasks : logout_done(t)
    \/ \E t \in Tasks : logout_error(t)
    \/ \E t \in Tasks : delete_done(t)
    \/ \E t \in Tasks, u \in Users : get_client(t, u)
    \/ \E t \in Tasks : get_client_poll(t)
    \/ \E t \in Tasks : get_any_client(t)
    \/ \E t \in Tasks : get_any_client_poll(t)
    \/ \E c \in Handle : set_syncing(c)

SpecLogout == InitSessions /\ [][NextLogout]_vars


\* =============================================================== claims

\* C1: at every await point the user ids of the session map are those of
\* the account collection, however login_client, resume_client and
\* logout_client interleave.  (Every state of the model is an await point:
\* an action runs a task from one await to the next.)
C1_SessionMapMatchesAccounts == Keys(clients) = Keys(accounts)

\* A logout and a resume are in flight while an account is registered.
C1_Witness ==
    /\ Keys(clients) # {}
    /\ \E t1, t2 \in Tasks :
          tasks[t1].pc = "logout" /\ tasks[t2].pc = "resume"

\* C2: at most one task holds the lock of a user id, and at most one
\* profile fetch for a user id is in flight.
C2_OneHolderPerUser ==
    \A u \in Users :
       /\ Cardinality({t \in Tasks : u \in held[t]}) <= 1
       /\ Cardinality({t \in Tasks : tasks[t].pc = "gp_fetch"
                                     /\ tasks[t].arg = u}) <= 1

\* One get_profile(u) fetches under u's lock while another waits for it.
C2_Witness ==
    \E t1, t2 \in Tasks :
       /\ tasks[t1].pc = "gp_fetch" /\ tasks[t1].arg \in held[t1]
       /\ tasks[t2].pc = "gp_lock" /\ tasks[t2].arg = tasks[t1].arg

\* C3 (as the spec states it): get_profile reads and writes profile_cache
\* only while its task holds the lock of the user id.
C3_CacheAccessedUnderLock ==
    cache_access.kind # "none" => cache_access.locked

\* C4 (as the spec states it): a task suspended in the interval sleep of
\* a wait loop holds no profile lock.
C4_NoLockAcrossWaitLoop ==
    \A t \in Tasks :
       tasks[t].pc \in {"gc_sleep", "gac_sleep", "gp_sleep"} => held[t] = {}

\* C5: a lock is locked exactly while a task is inside get_profile's
\* `async with` block for its user id; a task that left the block, by
\* return, by MatrixError, by an exception of the client or by
\* cancellation, holds nothing; and a free lock with waiters has woken
\* the first of them (or that one was cancelled and passes the wake-up
\* on), so a waiting get_profile gets the lock.
C5_LockReleasedOnEveryExit ==
    /\ \A t \in Tasks :
          held[t] = IF tasks[t].pc \in {"gp_sleep", "gp_fetch"}
                    THEN {tasks[t].arg} ELSE {}
    /\ \A u \in DOMAIN get_profile_locks :
          /\ get_profile_locks[u].locked <=> \E t \in Tasks : u \in held[t]
          /\ ~get_profile_locks[u].locked
             /\ get_profile_locks[u].waiters # <<>>
             => get_profile_locks[u].waiters[1].st \in {"woken", "cancelled"}

\* The only call that ended was cancelled inside the block (it held the
\* lock the waiter queued for); the lock is free and the waiter is woken.
C5_Witness ==
    /\ ret.op = "get_profile" /\ ret.val = "CancelledError"
    /\ Cardinality({t \in Tasks : tasks[t].pc = "done"}) = 1
    /\ \E t \in Tasks :
          /\ tasks[t].pc = "gp_lock" /\ tasks[t].arg = ret.arg
          /\ ~get_profile_locks[ret.arg].locked
          /\ WaiterOf(get_profile_locks[ret.arg], t).st = "woken"

\* A call ends in this step
Ended == \E t \in Tasks : tasks[t].pc # "done" /\ tasks'[t].pc = "done"

\* C6: get_client(id) stays suspended while id is not registered; when it
\* returns, id is registered and it returns id's client; it suspends only
\* when id is not registered at the call, so a call for a registered id
\* returns with no sleep; and no get_client(id) waits forever with id
\* registered: it returns, unless id is unregistered before its next poll.
C6_GetClientWaitsThenReturns ==
    /\ [][\A t \in Tasks :
            /\ tasks[t].pc = "gc_sleep" /\ tasks[t].arg \notin Keys(clients)
               => tasks'[t].pc = "gc_sleep"
            /\ tasks[t].pc = "idle" /\ tasks'[t].pc = "gc_sleep"
               => tasks'[t].arg \notin Keys(clients)
            /\ tasks[t].pc = "idle" /\ tasks'[t].pc = "done"
               /\ ret'.op = "get_client"
               => ret'.failures = 0]_vars
    /\ [][Ended /\ ret'.op = "get_client"
          => /\ ret'.kind = "return"
             /\ ret'.arg \in Keys(clients)
             /\ ret'.val = Lookup(clients, ret'.arg)]_vars
    /\ \A t \in Tasks :
          []<>~(tasks[t].pc = "gc_sleep" /\ tasks[t].arg \in Keys(clients))

\* A get_client that had to sleep returned the client registered since.
C6_Witness ==
    /\ ret.op = "get_client" /\ ret.kind = "return" /\ ret.failures > 0
    /\ ret.arg \in Keys(clients)
    /\ ret.val = Lookup(clients, ret.arg)

\* C7: get_any_client returns a registered client that is syncing when
\* it returns, the first such in the order of the session map; a waiting
\* get_any_client stays suspended while no registered client is syncing.
C7_FirstSyncingClient ==
    /\ [][Ended /\ ret'.op = "get_any_client"
          => /\ ret'.kind = "return"
             /\ \E i \in DOMAIN clients :
                   /\ clients[i].v = ret'.val
                   /\ clients[i].v \in syncing
                   /\ \A j \in 1 .. i - 1 : clients[j].v \notin syncing]_vars
    /\ [][\A t \in Tasks :
            /\ tasks[t].pc = "gac_sleep"
            /\ \A i \in DOMAIN clients : clients[i].v \notin syncing
            => tasks'[t].pc = "gac_sleep"]_vars

\* Two registered clients are syncing and get_any_client returned the
\* first of them.
C7_Witness ==
    /\ ret.op = "get_any_client" /\ ret.kind = "return"
    /\ Len(clients) = 2
    /\ clients[1].v \in syncing /\ clients[2].v \in syncing
    /\ ret.val = clients[1].v

\* C8 (as the spec states it): when the resume of one of several saved
\* accounts fails, load_saved_accounts ends by reporting an outcome per
\* account, the others resumed, and not by raising that one failure.
C8_PerAccountOutcomes ==
    /\ lsa.pc = "done"
    /\ \E u, v \in Users :
          u # v /\ children[u] = "raised" /\ children[v] # "none"
    => /\ lsa.ret.kind = "return"
       /\ \A u \in Users : children[u] \in {"none", "done", "raised"}
       /\ lsa.ret.val = {u \in Users : children[u] = "done"}

\* The proxy as the events say it is: the events of the sources the
\* proxy accepts, applied in order to a mapping that starts empty, each
\* entry under the key (sync id of the source, key).
RECURSIVE Replay(_)
Replay(evs) ==
    IF evs = <<>> THEN Empty
    ELSE LET e      == evs[Len(evs)]
             before == Replay(SubSeq(evs, 1, Len(evs) - 1))
             ck     == <<e.source, e.key>>
         IN  IF e.source \notin accepted THEN before
             ELSE IF e.op = "set"
                  THEN [x \in DOMAIN before \cup {ck} |->
                           IF x = ck THEN e.item ELSE before[x]]
             ELSE IF e.op = "delete"
                  THEN [x \in DOMAIN before \ {ck} |-> before[x]]
             ELSE [x \in {y \in DOMAIN before : y[1] # e.source} |->
                      before[x]]

\* C9: after every event the proxy holds what replaying the events of the
\* accepted sources gives; it holds no entry of a rejected source; and no
\* state shows an accepted source updated and the proxy stale: the proxy
\* holds exactly the items of the accepted sources.
C9_ProxyIsReplayOfEvents ==
    built =>
       /\ proxy = Replay(events)
       /\ \A ck \in DOMAIN proxy : ck[1] \in accepted
       /\ \A s \in accepted, k \in ItemKeys :
             /\ <<s, k>> \in DOMAIN proxy <=> k \in DOMAIN models[s]
             /\ k \in DOMAIN models[s] => proxy[<<s, k>>] = models[s][k]

\* A rejected source has set an item, a source was cleared, and the proxy
\* still holds an entry.
C9_Witness ==
    /\ built
    /\ proxy # Empty
    /\ \E i, j \in DOMAIN events :
          /\ events[i].op = "set" /\ events[i].source \notin accepted
          /\ events[j].op = "clear"

\* C10: source_cleared(S) on a proxy that accepts S removes the entries
\* whose key starts with S's sync id and leaves the others as they were;
\* on a proxy that does not accept S it changes nothing.
C10_ClearRemovesOnlyTheSource ==
    [][Len(events') = Len(events) + 1 /\ events'[Len(events')].op = "clear"
       => LET s == events'[Len(events')].source
          IN  IF s \in accepted
              THEN /\ DOMAIN proxy' = {ck \in DOMAIN proxy : ck[1] # s}
                   /\ \A ck \in DOMAIN proxy' : proxy'[ck] = proxy[ck]
              ELSE proxy' = proxy]_vars

\* An accepted source that had set an item was cleared last, and the
\* proxy still holds the entry of another source.
C10_Witness ==
    /\ events # <<>>
    /\ events[Len(events)].op = "clear"
    /\ events[Len(events)].source \in accepted
    /\ \E i \in DOMAIN events :
          events[i].op = "set"
          /\ events[i].source = events[Len(events)].source
    /\ proxy # Empty

\* C11: when an accepted source S sets an item under K and then deletes K,
\* the proxy holds no entry under (S, K) and its other entries are those
\* it held before the set, with the same items.
C11_SetThenDeleteRoundTrip ==
    [][/\ Len(events') = Len(events) + 1
       /\ call.op = "set" /\ call'.op = "delete"
       /\ call'.source = call.source /\ call'.key = call.key
       /\ call.source \in accepted
       => LET ck == <<call.source, call.key>>
          IN  /\ ck \notin DOMAIN proxy'
              /\ DOMAIN proxy' = DOMAIN prior \ {ck}
              /\ \A x \in DOMAIN proxy' : proxy'[x] = prior[x]]_vars

\* An accepted source set an item and deleted it at once, and the proxy
\* still holds another entry.
C11_Witness ==
    /\ Len(events) >= 2
    /\ call.op = "delete" /\ call.source \in accepted
    /\ LET e == events[Len(events) - 1]
       IN  e.op = "set" /\ e.source = call.source /\ e.key = call.key
    /\ proxy # Empty

\* C12: right after ModelProxy.__init__ the proxy holds, for every model
\* that exists and that it accepts, each of its items under the key
\* (sync id, key), and nothing else.
C12_ConstructionMirrors ==
    [][~built /\ built'
       => /\ DOMAIN proxy' = {sk \in SyncIds \X ItemKeys :
                                /\ sk[1] \in accepted
                                /\ sk[2] \in DOMAIN models[sk[1]]}
          /\ \A sk \in DOMAIN proxy' : proxy'[sk] = models[sk[1]][sk[2]]]_vars

\* The proxy was made after an accepted model got an item, and holds it.
C12_Witness ==
    /\ built /\ call.op = "init"
    /\ \E s \in accepted, k \in ItemKeys :
          /\ k \in DOMAIN models[s]
          /\ <<s, k>> \in DOMAIN proxy

C14_WarnsAtMultiplesOnly ==
    /\ [](\A t \in Tasks :
            /\ tasks[t].pc = "gc_sleep"
               => tasks[t].logged = tasks[t].failures \div WarnClientEvery
            /\ tasks[t].pc = "gac_sleep"
               => tasks[t].logged = tasks[t].failures \div WarnAnyEvery)
    /\ [][\A t \in Tasks :
            tasks'[t].logged > tasks[t].logged
            => tasks'[t].pc = tasks[t].pc /\ ret' = ret]_vars
    /\ [][Ended /\ ret'.op \in {"get_client", "get_any_client"}
          => ret'.kind = "return"]_vars

\* get_any_client returned its client after it had logged two diagnostics.
C14_Witness ==
    /\ ret.op = "get_any_client" /\ ret.kind = "return"
    /\ ret.failures > 2 * WarnAnyEvery

\* The place of x in an order
Rank(order, x) == CHOOSE i \in DOMAIN order : order[i] = x

\* C15: get_flat_mainpane_data returns the accounts in sorted order, each
\* once, each followed at once by the records of its own rooms in sorted
\* order, each room of each account once; a room record has the id
\* "<account id>/<room id>" and the account as user_id.
C15_FlatMainpaneData ==
    [][Ended /\ ret'.op = "get_flat_mainpane_data"
       => LET data == ret'.val
              acc  == {i \in DOMAIN data : data[i].type = "Account"}
              room == {i \in DOMAIN data : data[i].type = "Room"}
              owner(i) == data[Max({j \in acc : j < i})].id
          IN  /\ ret'.kind = "return"
              /\ acc \cup room = DOMAIN data
              /\ {data[i].id : i \in acc} = Keys(accounts)
              /\ \A i \in acc : data[i].user_id = data[i].id
              /\ \A i, j \in acc :
                    i < j => Rank(UserOrder, data[i].id)
                               < Rank(UserOrder, data[j].id)
              /\ \A i \in room :
                    /\ \E j \in acc : j < i
                    /\ data[i].user_id = owner(i)
                    /\ data[i].data \in Keys(rooms[owner(i)])
                    /\ data[i].id = owner(i) \o "/" \o data[i].data
                    /\ i - 1 \in room
                       => Rank(RoomOrder, data[i - 1].data)
                            < Rank(RoomOrder, data[i].data)
              /\ \A u \in Keys(accounts) :
                    \A r \in Keys(rooms[u]) :
                       Cardinality({i \in room : /\ data[i].user_id = u
                                                 /\ data[i].data = r}) = 1
       ]_vars

\* Both accounts were registered, the later id first, each with its two
\* rooms recorded the later id first, when the main pane was read.
C15_Witness ==
    /\ ret.op = "get_flat_mainpane_data"
    /\ Len(ret.val) = 6
    /\ Len(accounts) = 2 /\ accounts[1].k = UserOrder[2]
    /\ \A u \in Users :
          Len(rooms[u]) = 2 /\ rooms[u][1].k = RoomOrder[2]

\* C16 (as the claim states it): no profile fetch for a user id is issued
\* once profile_cache holds that user id; a get_profile that waited for
\* the lock while another call fetched does not fetch again.
C16_NoFetchOnceCached ==
    [][\A t \in Tasks :
          tasks[t].pc # "gp_fetch" /\ tasks'[t].pc = "gp_fetch"
          => tasks'[t].arg \notin DOMAIN profile_cache]_vars

\* C17: the client of a login_client call that is awaiting its login, or
\* closing after MatrixError, is not in the session map; the steps of
\* such a call change neither the session map nor the account
\* collection; the call raises MatrixError once close() has returned;
\* and get_client never returns the client of such a call.
C17_FailedLoginRegistersNothing ==
    /\ [](\A t \in Tasks :
            tasks[t].op = "login_client"
            => \A i \in DOMAIN clients : clients[i].v # tasks[t].client)
    /\ [][\A t \in Tasks :
            tasks'[t].op = "login_client" /\ tasks'[t] # tasks[t]
            => clients' = clients /\ accounts' = accounts]_vars
    /\ [][Ended /\ ret'.op = "login_client" /\ ret'.kind = "raise"
          => /\ ret'.val = "MatrixError"
             /\ \E t \in Tasks :
                   tasks[t].pc = "close" /\ tasks'[t].pc = "done"
             /\ clients' = clients /\ accounts' = accounts]_vars
    /\ [][Ended /\ ret'.op = "get_client"
          => \A t \in Tasks :
                tasks[t].op = "login_client"
                => ret'.val # tasks[t].client]_vars

\* login_client raised MatrixError; its user is not registered and a
\* get_client for that user is still waiting.
C17_Witness ==
    /\ ret.op = "login_client" /\ ret.kind = "raise"
    /\ ret.arg \notin Keys(clients) /\ ret.arg \notin Keys(accounts)
    /\ \E t \in Tasks :
          tasks[t].pc = "gc_sleep" /\ tasks[t].arg = ret.arg

\* C18: when resume_client suspends in `await client.resume()` its client
\* is in the session map under user_id and the account is in the account
\* collection; when the resume fails, resume_client raises the failure
\* and leaves both as they are.
C18_ResumeRegistersBeforeAwait ==
    /\ [][\A t \in Tasks :
            tasks[t].pc = "idle" /\ tasks'[t].pc = "resume"
            => /\ tasks'[t].arg \in Keys(clients')
               /\ Lookup(clients', tasks'[t].arg) = tasks'[t].client
               /\ tasks'[t].arg \in Keys(accounts')]_vars
    /\ [][Ended /\ ret'.op = "resume_client" /\ ret'.kind = "raise"
          => /\ ret'.val = "MatrixError"
             /\ clients' = clients /\ accounts' = accounts]_vars

\* get_client returned a client whose resume is still awaited.
C18_Witness ==
    /\ ret.op = "get_client" /\ ret.kind = "return"
    /\ \E t \in Tasks :
          /\ tasks[t].pc = "resume"
          /\ tasks[t].arg = ret.arg /\ tasks[t].client = ret.val

\* C19: the fetch of get_profile(U) ends the call either by returning the
\* profile, which is then cached under U, or by raising with
\* profile_cache as it was; MatrixError is raised with profile_cache as it
\* was; and profile_cache holds nothing but profiles, so that no
\* get_profile returns a cached failure.
C19_FetchErrorNotCached ==
    /\ [][\A t \in Tasks :
            tasks[t].pc = "gp_fetch" /\ tasks'[t].pc = "done"
            => \/ /\ ret'.kind = "return"
                  /\ ret'.val = Response(tasks[t].arg)
                  /\ tasks[t].arg \in DOMAIN profile_cache'
                  /\ profile_cache'[tasks[t].arg] = ret'.val
               \/ /\ ret'.kind = "raise"
                  /\ profile_cache' = profile_cache]_vars
    /\ [][Ended /\ ret'.op = "get_profile" /\ ret'.kind = "raise"
          => profile_cache' = profile_cache]_vars
    /\ [](\A u \in DOMAIN profile_cache : profile_cache[u] = Response(u))
    /\ [][Ended /\ ret'.op = "get_profile" /\ ret'.kind = "return"
          => ret'.val = Response(ret'.arg)]_vars

\* get_profile(U) raised MatrixError, profile_cache does not hold U, and a
\* get_profile(U) is fetching again.
C19_Witness ==
    /\ ret.op = "get_profile" /\ ret.kind = "raise"
    /\ ret.val = "MatrixError"
    /\ ret.arg \notin DOMAIN profile_cache
    /\ \E t \in Tasks : tasks[t].pc = "gp_fetch" /\ tasks[t].arg = ret.arg

\* C20: when logout_client(id) first suspends, id is in neither the
\* session map nor the account collection; for a registered id it is
\* suspended in the logout of id's client, which is in the session map at
\* no time while the call lasts and which no get_client or get_any_client
\* returns; for an unregistered id both structures are as they were and
\* the call goes to the deletion of the saved account with no logout; and
\* a logout_client(id) that returns has deleted the saved account.
C20_LogoutUnregistersFirst ==
    /\ [][\A t \in Tasks :
            tasks[t].pc = "idle" /\ tasks'[t].op = "logout_client"
            => LET id == tasks'[t].arg
               IN  /\ id \notin Keys(clients') /\ id \notin Keys(accounts')
                   /\ IF id \in Keys(clients)
                      THEN /\ tasks'[t].pc = "logout"
                           /\ tasks'[t].client = Lookup(clients, id)
                      ELSE /\ tasks'[t].pc = "delete"
                           /\ tasks'[t].client = NoClient
                           /\ clients' = clients
                           /\ accounts' = accounts]_vars
    /\ [](\A t \in Tasks :
            tasks[t].op = "logout_client"
            => \A i \in DOMAIN clients : clients[i].v # tasks[t].client)
    /\ [][Ended /\ ret'.op \in {"get_client", "get_any_client"}
          => \A t \in Tasks :
                tasks[t].op = "logout_client"
                => ret'.val # tasks[t].client]_vars
    /\ [][\A t \in Tasks :
            tasks[t].pc = "delete" /\ tasks[t].client = NoClient
            => tasks'[t].pc \in {"delete", "done"}]_vars
    /\ [][Ended /\ ret'.op = "logout_client" /\ ret'.kind = "return"
          => ret'.arg \notin saved_accounts']_vars

\* The logout of a client that is syncing is awaited, the client is not
\* registered, and a get_any_client waits.
C20_Witness ==
    \E t1, t2 \in Tasks :
       /\ tasks[t1].pc = "logout"
       /\ tasks[t1].client \in syncing
       /\ tasks[t1].arg \notin Keys(clients)
       /\ tasks[t2].pc = "gac_sleep"

=============================================================================
